---- MODULE Spec2Model ----
(***************************************************************************)
(* A model of the kataras/rewrite engine: rule compilation (New,           *)
(* parseRedirectMatchLine), the domain helpers (getDomain, getPort,        *)
(* getHost, getScheme) and the per-request pipeline Engine.rewrite.        *)
(*                                                                         *)
(* A Go string is a sequence of one-character strings.  Positions inside   *)
(* the regular-expression operators are 1-based ("before character i");    *)
(* the operators named after functions of package strings return Go's      *)
(* 0-based indices.                                                        *)
(***************************************************************************)
EXTENDS Integers, Sequences, FiniteSets, TLC

(***************************************************************************)
(* Bounds.                                                                 *)
(***************************************************************************)
\* The largest number of lines in Options.RedirectMatch.
MaxRules == 2

\* The largest number of requests in a chain of followed redirects.
MaxHops == 4

(***************************************************************************)
(* Package strings.                                                        *)
(***************************************************************************)
Digits == {"0", "1", "2", "3", "4", "5", "6", "7", "8", "9"}

Letters ==
  {"a", "b", "c", "d", "e", "f", "g", "h", "i", "j", "k", "l", "m",
   "n", "o", "p", "q", "r", "s", "t", "u", "v", "w", "x", "y", "z"}

\* s[from:] with a 0-based from.
SliceFrom(s, from) == SubSeq(s, from + 1, Len(s))

\* s[:to] with a 0-based to.
SliceTo(s, to) == SubSeq(s, 1, to)

HasPrefix(s, p) == Len(p) <= Len(s) /\ SubSeq(s, 1, Len(p)) = p

HasSuffix(s, p) ==
  Len(p) <= Len(s) /\ SubSeq(s, Len(s) - Len(p) + 1, Len(s)) = p

TrimPrefix(s, p) == IF HasPrefix(s, p) THEN SliceFrom(s, Len(p)) ELSE s

TrimSuffix(s, p) == IF HasSuffix(s, p) THEN SliceTo(s, Len(s) - Len(p)) ELSE s

\* The 0-based index of the first c in s, or -1.
IndexByte(s, c) ==
  IF \E i \in 1..Len(s) : s[i] = c
  THEN (CHOOSE i \in 1..Len(s) : s[i] = c /\ \A k \in 1..(i - 1) : s[k] # c) - 1
  ELSE -1

\* The 0-based index of the last c in s, or -1.
LastIndexByte(s, c) ==
  IF \E i \in 1..Len(s) : s[i] = c
  THEN (CHOOSE i \in 1..Len(s) :
          s[i] = c /\ \A k \in (i + 1)..Len(s) : s[k] # c) - 1
  ELSE -1

\* The 0-based index of the first occurrence of sub in s, or -1.
Index(s, sub) ==
  LET hits == {i \in 1..(Len(s) - Len(sub) + 1) :
                 SubSeq(s, i, i + Len(sub) - 1) = sub}
  IN  IF hits = {} THEN -1
      ELSE (CHOOSE i \in hits : \A k \in hits : i <= k) - 1

Contains(s, sub) == Index(s, sub) >= 0

RECURSIVE TrimLeftSpace(_)
TrimLeftSpace(s) ==
  IF s # <<>> /\ Head(s) = " " THEN TrimLeftSpace(Tail(s)) ELSE s

RECURSIVE TrimRightSpace(_)
TrimRightSpace(s) ==
  IF s # <<>> /\ s[Len(s)] = " "
  THEN TrimRightSpace(SubSeq(s, 1, Len(s) - 1))
  ELSE s

TrimSpace(s) == TrimRightSpace(TrimLeftSpace(s))

\* strings.Split(s, sep) for a one-character sep: the parts between every sep.
RECURSIVE Split(_, _)
Split(s, sep) ==
  LET i == IndexByte(s, sep)
  IN  IF i < 0 THEN <<s>>
      ELSE <<SliceTo(s, i)>> \o Split(SliceFrom(s, i + 1), sep)

\* LET a == v IN Body(a), with v computed once.
Bind(v, Body(_)) == CHOOSE res \in {Body(a) : a \in {v}} : TRUE

RECURSIVE Flatten(_)
Flatten(ss) == IF ss = <<>> THEN <<>> ELSE Head(ss) \o Flatten(Tail(ss))

\* strconv.Atoi on a string of ASCII digits.
DigitValue(ch) ==
  CASE ch = "0" -> 0 [] ch = "1" -> 1 [] ch = "2" -> 2 [] ch = "3" -> 3
    [] ch = "4" -> 4 [] ch = "5" -> 5 [] ch = "6" -> 6 [] ch = "7" -> 7
    [] ch = "8" -> 8 [] ch = "9" -> 9

RECURSIVE Atoi(_)
Atoi(s) ==
  IF s = <<>> THEN 0
  ELSE 10 * Atoi(SubSeq(s, 1, Len(s) - 1)) + DigitValue(s[Len(s)])

(***************************************************************************)
(* Package regexp: the syntax subset  e|e  ee  e*  (e)  .  ^  $  \c  c     *)
(* compiled to a tree, matched leftmost-first (the preference order of a   *)
(* backtracking matcher, which is the submatch Go's regexp reports).       *)
(***************************************************************************)
RECURSIVE ParseAlt(_, _, _)
RECURSIVE ParseCat(_, _, _)
RECURSIVE ParseStars(_, _, _)

\* One atom of pattern p at position i, g groups opened so far.
ParseAtom(p, i, g) ==
  CASE p[i] = "(" ->
         Bind(ParseAlt(p, i + 1, g + 1), LAMBDA in :
           IF in.ok /\ in.pos <= Len(p) /\ p[in.pos] = ")"
           THEN [ok |-> TRUE, pos |-> in.pos + 1, ng |-> in.ng,
                 re |-> [op |-> "grp", n |-> g + 1, e |-> in.re]]
           ELSE [ok |-> FALSE, pos |-> i, ng |-> g, re |-> [op |-> "empty"]])
    [] p[i] = "\\" ->
         IF i + 1 <= Len(p)
         THEN [ok |-> TRUE, pos |-> i + 2, ng |-> g,
               re |-> [op |-> "lit", c |-> p[i + 1]]]
         ELSE [ok |-> FALSE, pos |-> i, ng |-> g, re |-> [op |-> "empty"]]
    [] p[i] = "." -> [ok |-> TRUE, pos |-> i + 1, ng |-> g, re |-> [op |-> "any"]]
    [] p[i] = "^" -> [ok |-> TRUE, pos |-> i + 1, ng |-> g, re |-> [op |-> "bol"]]
    [] p[i] = "$" -> [ok |-> TRUE, pos |-> i + 1, ng |-> g, re |-> [op |-> "eol"]]
    [] p[i] = "*" -> [ok |-> FALSE, pos |-> i, ng |-> g, re |-> [op |-> "empty"]]
    [] OTHER -> [ok |-> TRUE, pos |-> i + 1, ng |-> g,
                 re |-> [op |-> "lit", c |-> p[i]]]

\* The stars that follow an atom a.
ParseStars(p, a, i) ==
  IF i <= Len(p) /\ p[i] = "*"
  THEN ParseStars(p, [op |-> "star", e |-> a], i + 1)
  ELSE [re |-> a, pos |-> i]

ParseCat(p, i, g) ==
  IF i > Len(p) \/ p[i] \in {"|", ")"}
  THEN [ok |-> TRUE, pos |-> i, ng |-> g, re |-> [op |-> "empty"]]
  ELSE Bind(ParseAtom(p, i, g), LAMBDA a :
         IF ~a.ok THEN a
         ELSE Bind(ParseStars(p, a.re, a.pos), LAMBDA st :
                Bind(ParseCat(p, st.pos, a.ng), LAMBDA rest :
                  IF ~rest.ok THEN rest
                  ELSE [ok |-> TRUE, pos |-> rest.pos, ng |-> rest.ng,
                        re |-> IF rest.re.op = "empty" THEN st.re
                               ELSE [op |-> "cat", l |-> st.re, r |-> rest.re]])))

ParseAlt(p, i, g) ==
  Bind(ParseCat(p, i, g), LAMBDA a :
    IF ~a.ok \/ a.pos > Len(p) \/ p[a.pos] # "|" THEN a
    ELSE Bind(ParseAlt(p, a.pos + 1, a.ng), LAMBDA b :
           IF ~b.ok THEN b
           ELSE [ok |-> TRUE, pos |-> b.pos, ng |-> b.ng,
                 re |-> [op |-> "alt", l |-> a.re, r |-> b.re]]))

\* regexp.Compile: ok is FALSE on a syntax error (MustCompile panics then).
Compile(p) ==
  Bind(ParseAlt(p, 1, 0), LAMBDA r :
    [ok |-> r.ok /\ r.pos = Len(p) + 1, re |-> r.re, ng |-> r.ng])

NoCaps(ng) == [k \in 1..ng |-> <<0, 0>>]

\* Every way re matches s starting at position i, in preference order: a
\* sequence of <<end, captures>>, captures[k] = <<start, end>> of group k and
\* <<0, 0>> for a group that took no part.
RECURSIVE MatchAt(_, _, _, _)
RECURSIVE MatchThen(_, _, _, _)
RECURSIVE MatchStar(_, _, _, _)

\* l matched in the ways ls; each continued by r.
MatchThen(ls, r, s, k) ==
  Flatten([j \in k..Len(ls) |-> MatchAt(r, s, ls[j][1], ls[j][2])])

\* Greedy e*: one more e (that consumed something) before the empty match.
MatchStar(e, s, i, caps) ==
  Bind(MatchAt(e, s, i, caps), LAMBDA once :
    Flatten([k \in 1..Len(once) |->
               IF once[k][1] > i
               THEN MatchStar(e, s, once[k][1], once[k][2])
               ELSE <<>>])
    \o <<<<i, caps>>>>)

MatchAt(re, s, i, caps) ==
  CASE re.op = "empty" -> <<<<i, caps>>>>
    [] re.op = "lit" ->
         IF i <= Len(s) /\ s[i] = re.c THEN <<<<i + 1, caps>>>> ELSE <<>>
    [] re.op = "any" ->
         IF i <= Len(s) /\ s[i] # "\n" THEN <<<<i + 1, caps>>>> ELSE <<>>
    [] re.op = "bol" -> IF i = 1 THEN <<<<i, caps>>>> ELSE <<>>
    [] re.op = "eol" -> IF i = Len(s) + 1 THEN <<<<i, caps>>>> ELSE <<>>
    [] re.op = "cat" ->
         Bind(MatchAt(re.l, s, i, caps), LAMBDA ls : MatchThen(ls, re.r, s, 1))
    [] re.op = "alt" -> MatchAt(re.l, s, i, caps) \o MatchAt(re.r, s, i, caps)
    [] re.op = "star" -> MatchStar(re.e, s, i, caps)
    [] re.op = "grp" ->
         Bind(MatchAt(re.e, s, i, caps), LAMBDA in :
           [k \in 1..Len(in) |->
              <<in[k][1], [in[k][2] EXCEPT ![re.n] = <<i, in[k][1]>>]>>])

\* The leftmost match of rx in s that starts at position pos or later.
RECURSIVE FindFrom(_, _, _)
FindFrom(rx, s, pos) ==
  IF pos > Len(s) + 1 THEN [found |-> FALSE]
  ELSE Bind(MatchAt(rx.re, s, pos, NoCaps(rx.ng)), LAMBDA ms :
         IF ms # <<>>
         THEN [found |-> TRUE, start |-> pos, end |-> ms[1][1], caps |-> ms[1][2]]
         ELSE FindFrom(rx, s, pos + 1))

\* Regexp.MatchString: the pattern matches somewhere in s.
MatchString(rx, s) == FindFrom(rx, s, 1).found

\* The name that follows a "$" of a template: its longest run of letters,
\* digits and underscores, starting at position i.
RECURSIVE NameEnd(_, _)
NameEnd(t, i) ==
  IF i <= Len(t) /\ t[i] \in (Letters \cup Digits \cup {"_"})
  THEN NameEnd(t, i + 1)
  ELSE i

\* Regexp.expand: the template with $name replaced by the text of the group.
\* A name that is a number without a leading zero is that group ($0 the whole
\* match); any other name is a named group, and the patterns have none.
RECURSIVE Expand(_, _, _)
Expand(t, s, m) ==
  LET d == IndexByte(t, "$")
  IN  IF d < 0 THEN t
      ELSE LET before == SliceTo(t, d)
               after == SliceFrom(t, d + 1)
               e == NameEnd(after, 1)
               name == SubSeq(after, 1, e - 1)
               isNum == (\A k \in 1..Len(name) : name[k] \in Digits)
                        /\ ~(name[1] = "0" /\ Len(name) > 1)
               num == Atoi(name)
               text == IF ~isNum THEN <<>>
                       ELSE IF num = 0 THEN SubSeq(s, m.start, m.end - 1)
                       ELSE IF num <= Len(m.caps) /\ m.caps[num][1] > 0
                            THEN SubSeq(s, m.caps[num][1], m.caps[num][2] - 1)
                            ELSE <<>>
           IN  IF after # <<>> /\ after[1] = "$"
               THEN before \o <<"$">> \o Expand(SliceFrom(after, 1), s, m)
               ELSE IF e = 1
                    THEN before \o <<"$">> \o Expand(after, s, m)
                    ELSE before \o text \o Expand(SliceFrom(after, e - 1), s, m)

\* Regexp.replaceAll: every match, left to right and not overlapping, replaced
\* by the expanded template; lastMatchEnd and searchPos as in the Go loop.
RECURSIVE ReplaceLoop(_, _, _, _, _)
ReplaceLoop(rx, s, t, lastMatchEnd, searchPos) ==
  Bind(FindFrom(rx, s, searchPos), LAMBDA a :
    IF searchPos > Len(s) + 1 \/ ~a.found
    THEN SubSeq(s, lastMatchEnd, Len(s))
    ELSE LET width == IF searchPos <= Len(s) THEN 1 ELSE 0
             nextPos == IF searchPos + width > a.end THEN searchPos + width
                        ELSE IF searchPos + 1 > a.end THEN searchPos + 1
                        ELSE a.end
         IN  SubSeq(s, lastMatchEnd, a.start - 1)
             \o (IF a.end > lastMatchEnd \/ a.start = 1
                 THEN Expand(t, s, a) ELSE <<>>)
             \o ReplaceLoop(rx, s, t, a.end, nextPos))

ReplaceAllString(rx, s, t) == ReplaceLoop(rx, s, t, 1, 1)

(***************************************************************************)
(* Package net and golang.org/x/net/publicsuffix.                          *)
(***************************************************************************)
\* net.SplitHostPort: ok is FALSE when it returns an error (no port, too
\* many colons, a bracket out of place).
SplitHostPort(hostport) ==
  LET i == LastIndexByte(hostport, ":")
      end == IndexByte(hostport, "]")
      bracket == hostport # <<>> /\ hostport[1] = "["
      host == IF bracket THEN SubSeq(hostport, 2, end) ELSE SliceTo(hostport, i)
      j == IF bracket THEN 1 ELSE 0
      k == IF bracket THEN end + 1 ELSE 0
      bad == \/ i < 0
             \/ bracket /\ (end < 0 \/ end + 1 # i)
             \/ ~bracket /\ IndexByte(host, ":") >= 0
             \/ IndexByte(SliceFrom(hostport, j), "[") >= 0
             \/ IndexByte(SliceFrom(hostport, k), "]") >= 0
  IN  IF bad THEN [ok |-> FALSE, host |-> <<>>, port |-> <<>>]
      ELSE [ok |-> TRUE, host |-> host, port |-> SliceFrom(hostport, i + 1)]

\* The rules of the public suffix list that the hosts of the model meet; a
\* domain under no listed rule falls under the list's default rule "*".
PublicSuffixList == {<<"c", "o", "m">>}

\* publicsuffix.PublicSuffix: the longest listed suffix of the domain, or its
\* last label.
PublicSuffix(domain) ==
  LET listed == {r \in PublicSuffixList :
                   domain = r \/ HasSuffix(domain, <<".">> \o r)}
  IN  IF listed # {}
      THEN CHOOSE r \in listed : \A q \in listed : Len(q) <= Len(r)
      ELSE SliceFrom(domain, 1 + LastIndexByte(domain, "."))

\* publicsuffix.EffectiveTLDPlusOne: ok is FALSE when it returns an error.
EffectiveTLDPlusOne(domain) ==
  LET suffix == PublicSuffix(domain)
      i == Len(domain) - Len(suffix) - 1
  IN  IF \/ HasPrefix(domain, <<".">>)
         \/ HasSuffix(domain, <<".">>)
         \/ Contains(domain, <<".", ".">>)
         \/ Len(domain) <= Len(suffix)
         \/ domain[i + 1] # "."
      THEN [ok |-> FALSE, domain |-> <<>>]
      ELSE [ok |-> TRUE,
            domain |-> SliceFrom(domain, 1 + LastIndexByte(SliceTo(domain, i), "."))]

(***************************************************************************)
(* Package net/url.  A URL is [Scheme, Opaque, Host, Path, RawQuery]; the   *)
(* strings of the model hold no "#", no "@" and no valid %XX escape, so a   *)
(* URL has no fragment, no user and its escaped path is its path.           *)
(***************************************************************************)
HexDigits == Digits \cup {"a", "b", "c", "d", "e", "f"}

\* unescape's check: every "%" is followed by two hexadecimal digits.
ValidEscapes(s) ==
  \A i \in 1..Len(s) :
    s[i] = "%" => i + 2 <= Len(s) /\ s[i + 1] \in HexDigits /\ s[i + 2] \in HexDigits

\* url.getScheme: the scheme and what follows it; ok is FALSE on
\* "missing protocol scheme".
RECURSIVE GetSchemeAt(_, _)
GetSchemeAt(rawURL, i) ==
  IF i > Len(rawURL) THEN [ok |-> TRUE, scheme |-> <<>>, rest |-> rawURL]
  ELSE CASE rawURL[i] \in Letters -> GetSchemeAt(rawURL, i + 1)
         [] rawURL[i] \in (Digits \cup {"+", "-", "."}) ->
              IF i = 1 THEN [ok |-> TRUE, scheme |-> <<>>, rest |-> rawURL]
              ELSE GetSchemeAt(rawURL, i + 1)
         [] rawURL[i] = ":" ->
              IF i = 1 THEN [ok |-> FALSE, scheme |-> <<>>, rest |-> <<>>]
              ELSE [ok |-> TRUE, scheme |-> SliceTo(rawURL, i - 1),
                    rest |-> SliceFrom(rawURL, i)]
         [] OTHER -> [ok |-> TRUE, scheme |-> <<>>, rest |-> rawURL]

\* url.validOptionalPort on the host of an authority.
ValidOptionalPort(host) ==
  LET c == LastIndexByte(host, ":")
  IN  c < 0 \/ \A k \in (c + 2)..Len(host) : host[k] \in Digits

\* url.Parse(rawURL): ok is FALSE when it returns an error.
URLParse(rawURL) ==
  LET sch == GetSchemeAt(rawURL, 1)
      q == IndexByte(sch.rest, "?")
      rest == IF q < 0 THEN sch.rest ELSE SliceTo(sch.rest, q)
      query == IF q < 0 THEN <<>> ELSE SliceFrom(sch.rest, q + 1)
      rooted == HasPrefix(rest, <<"/">>)
      firstSeg == LET c == IndexByte(rest, "/")
                  IN  IF c < 0 THEN rest ELSE SliceTo(rest, c)
      hasAuth == HasPrefix(rest, <<"/", "/">>)
                 /\ (sch.scheme # <<>> \/ ~HasPrefix(rest, <<"/", "/", "/">>))
      afterAuth == SliceFrom(rest, 2)
      slash == IndexByte(afterAuth, "/")
      host == IF ~hasAuth THEN <<>>
              ELSE IF slash < 0 THEN afterAuth ELSE SliceTo(afterAuth, slash)
      path == IF ~hasAuth THEN rest
              ELSE IF slash < 0 THEN <<>> ELSE SliceFrom(afterAuth, slash)
      fail == [ok |-> FALSE, Scheme |-> <<>>, Opaque |-> <<>>, Host |-> <<>>,
               Path |-> <<>>, RawQuery |-> <<>>]
  IN  IF ~sch.ok THEN fail
      ELSE IF ~rooted /\ sch.scheme # <<>>
      THEN [ok |-> TRUE, Scheme |-> sch.scheme, Opaque |-> rest, Host |-> <<>>,
            Path |-> <<>>, RawQuery |-> query]
      ELSE IF ~rooted /\ Contains(firstSeg, <<":">>) THEN fail
      ELSE IF ~ValidEscapes(host) \/ ~ValidOptionalPort(host) THEN fail
      ELSE IF ~ValidEscapes(path) THEN fail
      ELSE [ok |-> TRUE, Scheme |-> sch.scheme, Opaque |-> <<>>, Host |-> host,
            Path |-> path, RawQuery |-> query]

\* URL.String.
URLString(u) ==
  (IF u.Scheme # <<>> THEN u.Scheme \o <<":">> ELSE <<>>)
  \o (IF u.Opaque # <<>> THEN u.Opaque
      ELSE (IF (u.Scheme # <<>> \/ u.Host # <<>>) /\ (u.Host # <<>> \/ u.Path # <<>>)
            THEN <<"/", "/">> ELSE <<>>)
           \o u.Host
           \o (IF u.Path # <<>> /\ u.Path[1] # "/" /\ u.Host # <<>>
               THEN <<"/">> ELSE <<>>)
           \o u.Path)
  \o (IF u.RawQuery # <<>> THEN <<"?">> \o u.RawQuery ELSE <<>>)

\* URL.RequestURI.
RequestURI(u) ==
  LET result == IF u.Opaque # <<>> THEN u.Opaque
                ELSE IF u.Path = <<>> THEN <<"/">> ELSE u.Path
  IN  result \o (IF u.RawQuery # <<>> THEN <<"?">> \o u.RawQuery ELSE <<>>)

\* The element loop of url.resolvePath over the elements from position k on:
\* dst is the text written after the leading "/".
RECURSIVE ResolveElems(_, _, _, _)
ResolveElems(elems, k, dst, first) ==
  IF k > Len(elems)
  THEN LET last == elems[Len(elems)]
           r == <<"/">> \o dst
                \o (IF last = <<".">> \/ last = <<".", ".">> THEN <<"/">> ELSE <<>>)
       IN  IF Len(r) > 1 /\ r[2] = "/" THEN Tail(r) ELSE r
  ELSE LET elem == elems[k]
       IN  IF elem = <<".">> THEN ResolveElems(elems, k + 1, dst, FALSE)
           ELSE IF elem = <<".", ".">>
           THEN LET index == LastIndexByte(dst, "/")
                IN  IF index = -1 THEN ResolveElems(elems, k + 1, <<>>, TRUE)
                    ELSE ResolveElems(elems, k + 1, SliceTo(dst, index), first)
           ELSE ResolveElems(elems, k + 1,
                             dst \o (IF first THEN <<>> ELSE <<"/">>) \o elem, FALSE)

\* url.resolvePath(base, ref).
ResolvePath(base, ref) ==
  LET full == IF ref = <<>> THEN base
              ELSE IF ref[1] # "/"
              THEN SliceTo(base, LastIndexByte(base, "/") + 1) \o ref
              ELSE ref
  IN  IF full = <<>> THEN <<>> ELSE ResolveElems(Split(full, "/"), 1, <<>>, TRUE)

\* URL.ResolveReference(ref) on the URL u.
ResolveReference(u, ref) ==
  IF ref.Scheme # <<>> \/ ref.Host # <<>>
  THEN [Scheme |-> IF ref.Scheme = <<>> THEN u.Scheme ELSE ref.Scheme,
        Opaque |-> ref.Opaque, Host |-> ref.Host,
        Path |-> ResolvePath(ref.Path, <<>>), RawQuery |-> ref.RawQuery]
  ELSE [Scheme |-> u.Scheme, Opaque |-> <<>>, Host |-> u.Host,
        Path |-> ResolvePath(u.Path, ref.Path),
        RawQuery |-> IF ref.Path = <<>> /\ ref.RawQuery = <<>>
                     THEN u.RawQuery ELSE ref.RawQuery]

\* path.Clean of a rooted path: no empty, "." or ".." element is left.
RECURSIVE CleanElems(_, _, _)
CleanElems(elems, k, out) ==
  IF k > Len(elems) THEN out
  ELSE LET elem == elems[k]
       IN  IF elem = <<>> \/ elem = <<".">> THEN CleanElems(elems, k + 1, out)
           ELSE IF elem = <<".", ".">>
           THEN CleanElems(elems, k + 1, SubSeq(out, 1, Len(out) - 1))
           ELSE CleanElems(elems, k + 1, Append(out, elem))

PathClean(p) ==
  LET kept == CleanElems(Split(p, "/"), 1, <<>>)
  IN  IF kept = <<>> THEN <<"/">>
      ELSE Flatten([k \in 1..Len(kept) |-> <<"/">> \o kept[k]])

\* path.Split: the directory of a path, up to and with its last "/".
PathDir(p) == SliceTo(p, LastIndexByte(p, "/") + 1)

(***************************************************************************)
(* Rule compilation: parseRedirectMatchLine and New.                       *)
(***************************************************************************)
localhost == <<"l", "o", "c", "a", "l", "h", "o", "s", "t">>

isDigit(ch) == ch \in Digits

\* LoopDetected with the check left out.
LoopNeverDetected(regex, target) == FALSE

\* LoopDetected with the test turned around.
LoopDetectedInverted(regex, target) == ~MatchString(regex, target)

\* The loop check of parseRedirectMatchLine: the compiled pattern matches the
\* literal target.
LoopDetected(regex, target) == MatchString(regex, target)

\* The nil *redirectMatch returned with an error.
NoRule ==
  [code |-> 0, pattern |-> [ok |-> FALSE], source |-> <<>>, target |-> <<>>,
   noRedirect |-> FALSE, isRelativePattern |-> FALSE]

\* parseRedirectMatchLine(s): err is "" and v the rule, or err names the
\* error returned ("panic" when regexp.MustCompile panics).
parseRedirectMatchLine(s) ==
  Bind(Split(TrimSpace(s), " "), LAMBDA parts :
    IF Len(parts) # 3 THEN [err |-> "invalid line", v |-> NoRule]
    ELSE IF \E i \in 1..Len(parts[1]) : ~isDigit(parts[1][i])
    THEN [err |-> "status code digits", v |-> NoRule]
    ELSE IF parts[1] = <<>> THEN [err |-> "status code digits", v |-> NoRule]
    ELSE
      Bind(Compile(parts[2]), LAMBDA regex :
        IF ~regex.ok THEN [err |-> "panic", v |-> NoRule]
        ELSE IF LoopDetected(regex, parts[3])
        THEN [err |-> "loop detected", v |-> NoRule]
        ELSE Bind(Atoi(parts[1]), LAMBDA code :
               [err |-> "",
                v |-> [code |-> code,
                       pattern |-> regex,
                       source |-> parts[2],
                       target |-> parts[3],
                       noRedirect |-> code <= 0,
                       isRelativePattern |-> parts[2][1] = "/"]])))

\* The loop of New over opts.RedirectMatch from line k on: the first error
\* ends it.
RECURSIVE ParseLines(_, _, _)
ParseLines(lines, k, redirects) ==
  IF k > Len(lines) THEN [err |-> "", redirects |-> redirects]
  ELSE LET r == parseRedirectMatchLine(lines[k])
       IN  IF r.err # "" THEN [err |-> r.err, redirects |-> <<>>]
           ELSE ParseLines(lines, k + 1, Append(redirects, r.v))

\* New(opts): the engine, or the error.
New(opts) ==
  LET parsed == ParseLines(opts.RedirectMatch, 1, <<>>)
      primary == IF opts.PrimarySubdomain # <<>>
                    /\ ~HasSuffix(opts.PrimarySubdomain, <<".">>)
                 THEN opts.PrimarySubdomain \o <<".">>
                 ELSE opts.PrimarySubdomain
  IN  [err |-> parsed.err,
       redirects |-> parsed.redirects,
       PrimarySubdomain |-> IF parsed.err = "" THEN primary ELSE <<>>]

\* domainValidator without the test.
domainValidatorAlways(root) == TRUE

\* domainValidator without its negation.
domainValidatorInverted(root) == HasSuffix(root, localhost)

\* Engine.domainValidator.
domainValidator(root) == ~HasSuffix(root, localhost)

(***************************************************************************)
(* The request helpers.  A request is [Method, Host, TLS, URL].            *)
(***************************************************************************)
schemeHTTPS == <<"h", "t", "t", "p", "s">>
schemeHTTP == <<"h", "t", "t", "p">>
sufscheme == <<":", "/", "/">>

getScheme(r) ==
  (IF r.URL.Scheme = <<>>
   THEN IF r.TLS THEN schemeHTTPS ELSE schemeHTTP
   ELSE r.URL.Scheme) \o sufscheme

getPort(hostport) ==
  LET portIdx == IndexByte(hostport, ":")
  IN  IF portIdx > 0 THEN SliceFrom(hostport, portIdx) ELSE <<>>

getHost(r) == IF r.URL.Host # <<>> THEN r.URL.Host ELSE r.Host

LoopbackNames ==
  {localhost,
   <<"1", "2", "7", ".", "0", ".", "0", ".", "1">>,
   <<"0", ".", "0", ".", "0", ".", "0">>,
   <<":", ":", "1">>,
   <<"[", ":", ":", "1", "]">>,
   <<"0", ":", "0", ":", "0", ":", "0", ":", "0", ":", "0", ":", "0", ":", "0">>,
   <<"0", ":", "0", ":", "0", ":", "0", ":", "0", ":", "0", ":", "0", ":", "1">>}

getDomain(hostport) ==
  LET split == SplitHostPort(hostport)
      host == IF split.ok THEN split.host ELSE hostport
      etld == EffectiveTLDPlusOne(host)
  IN  IF host \in LoopbackNames THEN localhost
      ELSE IF etld.ok THEN etld.domain
      ELSE host

(***************************************************************************)
(* The response writer.  An exchange st is                                 *)
(*   r         the request, as the handler has changed it so far           *)
(*   w         the responses written: [code, location]                     *)
(*   next      the requests handed to next.ServeHTTP                       *)
(*   evaluated the indexes of the rules matchAndReplace was called on      *)
(*   canon     what the subdomain step did                                 *)
(*   panicked  ResponseWriter.WriteHeader panicked                         *)
(***************************************************************************)
StatusMovedPermanently == 301
StatusMisdirectedRequest == 421

\* net/http's checkWriteHeaderCode: WriteHeader panics on any other code.
ValidWriteHeaderCode(code) == code >= 100 /\ code <= 999

WriteResponse(st, code, location) ==
  IF ValidWriteHeaderCode(code)
  THEN [st EXCEPT !.w = Append(@, [code |-> code, location |-> location])]
  ELSE [st EXCEPT !.panicked = TRUE]

\* The Location http.Redirect sends: a url with neither scheme nor host is
\* made absolute against the request path and cleaned.
RedirectLocation(r, url) ==
  LET u == URLParse(url)
      oldpath == IF r.URL.Path = <<>> THEN <<"/">> ELSE r.URL.Path
      abs == IF url = <<>> \/ url[1] # "/" THEN PathDir(oldpath) \o url ELSE url
      q == IndexByte(abs, "?")
      path == IF q < 0 THEN abs ELSE SliceTo(abs, q)
      query == IF q < 0 THEN <<>> ELSE SliceFrom(abs, q)
      cleaned == PathClean(path)
  IN  IF u.ok /\ u.Scheme = <<>> /\ u.Host = <<>>
      THEN (IF HasSuffix(path, <<"/">>) /\ ~HasSuffix(cleaned, <<"/">>)
            THEN cleaned \o <<"/">> ELSE cleaned) \o query
      ELSE url

httpRedirect(st, url, code) == WriteResponse(st, code, RedirectLocation(st.r, url))

redirectAbs(st, url, code) == WriteResponse(st, code, url)

httpError(st, code) == WriteResponse(st, code, <<>>)

ServeNext(st) == [st EXCEPT !.next = Append(@, st.r)]

(***************************************************************************)
(* Engine.rewrite.                                                         *)
(***************************************************************************)
\* matchAndReplace that takes an empty output for a match.
matchAndReplaceEmpty(rd, src) ==
  IF MatchString(rd.pattern, src)
  THEN [target |-> ReplaceAllString(rd.pattern, src, rd.target), ok |-> TRUE]
  ELSE [target |-> <<>>, ok |-> FALSE]

matchAndReplace(rd, src) ==
  IF MatchString(rd.pattern, src)
  THEN LET match == ReplaceAllString(rd.pattern, src, rd.target)
       IN  IF match # <<>> THEN [target |-> match, ok |-> TRUE]
           ELSE [target |-> <<>>, ok |-> FALSE]
  ELSE [target |-> <<>>, ok |-> FALSE]

\* The match subject of rule rd for request r.
Subject(rd, r) ==
  IF ~rd.isRelativePattern
  THEN getScheme(r) \o getHost(r) \o RequestURI(r.URL)
  ELSE r.URL.Path

\* SameAsSource with the test left out.
NeverSameAsSource(target, src) == FALSE

\* The test for a match that changes nothing.
SameAsSource(target, src) == target = src

\* InternalRewrite that forgets to assign the parsed URL to the request.
InternalRewriteKeepsURL(st, target) ==
  IF ~URLParse(target).ok THEN httpError(st, StatusMisdirectedRequest)
  ELSE ServeNext(st)

\* The branch of a rule with no redirect: the request URL becomes the target,
\* parsed in the context of the URL, and the request goes to next.
InternalRewrite(st, target) ==
  LET u == URLParse(target)
  IN  IF ~u.ok THEN httpError(st, StatusMisdirectedRequest)
      ELSE ServeNext([st EXCEPT !.r.URL = ResolveReference(st.r.URL, u)])

\* What the loop does once rule rd has produced target for the subject src.
ApplyMatch(st, rd, src, target) ==
  IF SameAsSource(target, src) THEN ServeNext(st)
  ELSE IF rd.noRedirect THEN InternalRewrite(st, target)
  ELSE IF ~rd.isRelativePattern THEN redirectAbs(st, target, rd.code)
  ELSE httpRedirect(st, target, rd.code)

\* FallThrough that forgets the call.
FallThroughDropped(st) == st

\* The call of next after the loop, no rule having matched.
FallThrough(st) == ServeNext(st)

\* The loop over e.redirects from rule i on, and the call of next after it.
RECURSIVE RuleLoop(_, _, _)
RuleLoop(e, st, i) ==
  IF i > Len(e.redirects) THEN FallThrough(st)
  ELSE LET rd == e.redirects[i]
           seen == [st EXCEPT !.evaluated = Append(@, i)]
       IN  Bind(Subject(rd, st.r), LAMBDA src :
             Bind(matchAndReplace(rd, src), LAMBDA m :
               IF m.ok THEN ApplyMatch(seen, rd, src, m.target)
               ELSE RuleLoop(e, seen, i + 1)))

\* Normalize that leaves the URL's host as it was.
NormalizeHostOnly(st, rootHost) ==
  [st EXCEPT !.r.Host = rootHost, !.canon = "normalized"]

\* The request on the primary subdomain gets the root host in both fields.
Normalize(st, rootHost) ==
  [st EXCEPT !.r.Host = rootHost, !.r.URL.Host = rootHost, !.canon = "normalized"]

\* The subdomain step: done is TRUE when the handler returns after it.
Canonicalize(e, st) ==
  IF e.PrimarySubdomain = <<>>
  THEN [done |-> FALSE, st |-> [st EXCEPT !.canon = "off"]]
  ELSE
    Bind(getHost(st.r), LAMBDA hostport :
      Bind(getDomain(hostport), LAMBDA domain :
        IF ~domainValidator(domain)
        THEN [done |-> FALSE, st |-> [st EXCEPT !.canon = "loopback"]]
        ELSE
          Bind(domain \o getPort(hostport), LAMBDA root :
            Bind(TrimSuffix(hostport, root), LAMBDA subdomain :
              IF subdomain = <<>>
              THEN Bind(e.PrimarySubdomain \o root, LAMBDA newHost :
                     Bind([st EXCEPT !.r.Host = newHost, !.r.URL.Host = newHost,
                                     !.canon = "redirect"],
                          LAMBDA moved :
                            [done |-> TRUE,
                             st |-> httpRedirect(moved, URLString(moved.r.URL),
                                                 StatusMovedPermanently)]))
              ELSE IF subdomain = e.PrimarySubdomain
              THEN [done |-> FALSE,
                    st |-> Normalize(st, TrimPrefix(hostport, subdomain))]
              ELSE [done |-> FALSE, st |-> [st EXCEPT !.canon = "other"]]))))

\* An exchange before the handler has run.
Fresh(r) ==
  [r |-> r, w |-> <<>>, next |-> <<>>, evaluated |-> <<>>, canon |-> "",
   panicked |-> FALSE]

\* Engine.rewrite(w, r, next).
rewrite(e, r) ==
  LET c == Canonicalize(e, Fresh(r))
  IN  IF c.done THEN c.st ELSE RuleLoop(e, c.st, 1)

(***************************************************************************)
(* The inputs: rule lines, primary subdomains and requests.                 *)
(***************************************************************************)
\* 301 /s(.*) $1: a rule like the README's /seo/(.*) to /$1; its output is
\* empty for the path /s.
LineSeo == <<"3", "0", "1", " ", "/", "s", "(", ".", "*", ")", " ", "$", "1">>

\* 301 /(o|s)(.*) /: the README's /old(.*) rule, for two prefixes.
LineOld ==
  <<"3", "0", "1", " ", "/", "(", "o", "|", "s", ")", "(", ".", "*", ")",
    " ", "/">>

\* 0 /(.*)\.(j|x) /$1?f=$2: the example's internal rewrite of .json and .xml.
LineFormat ==
  <<"0", " ", "/", "(", ".", "*", ")", "\\", ".", "(", "j", "|", "x", ")",
    " ", "/", "$", "1", "?", "f", "=", "$", "2">>

\* 301 ^(http|https)://d\.(.*) $1://n.$2: the example's absolute rule, on the
\* root host.
LineTest ==
  <<"3", "0", "1", " ", "^", "(", "h", "t", "t", "p", "|", "h", "t", "t",
    "p", "s", ")", ":", "/", "/", "d", "\\", ".", "(", ".", "*", ")", " ",
    "$", "1", ":", "/", "/", "n", ".", "$", "2">>

\* 302 /(b) /$1: a rule whose output is its subject.
LineSame == <<"3", "0", "2", " ", "/", "(", "b", ")", " ", "/", "$", "1">>

\* 0 /p /%: an internal rewrite to a target url.Parse rejects.
LineEscape == <<"0", " ", "/", "p", " ", "/", "%">>

\* 7 /c /: a status code WriteHeader rejects.
LineCode == <<"7", " ", "/", "c", " ", "/">>

\* 301 /p(.*) /p/x: the pattern matches the target.
LineLoop ==
  <<"3", "0", "1", " ", "/", "p", "(", ".", "*", ")", " ", "/", "p", "/",
    "x">>

\* 301 /a: two parts.
LineShort == <<"3", "0", "1", " ", "/", "a">>

\* 3x1 /a /b: a status code that is not digits.
LineAlpha == <<"3", "x", "1", " ", "/", "a", " ", "/", "b">>

\* 301 /(a /b: a pattern that does not compile.
LineParen == <<"3", "0", "1", " ", "/", "(", "a", " ", "/", "b">>

RuleLines ==
  {LineSeo, LineOld, LineFormat, LineTest, LineSame, LineEscape, LineCode,
   LineLoop, LineShort, LineAlpha, LineParen}

www == <<"w", "w", "w">>

HostRoot == <<"d", ".", "c", "o", "m">>

HostRootPort == <<"d", ".", "c", "o", "m", ":", "8", "0">>

HostWWW == <<"w", "w", "w", ".", "d", ".", "c", "o", "m">>

HostWWWPort == <<"w", "w", "w", ".", "d", ".", "c", "o", "m", ":", "8", "0">>

HostTest == <<"t", ".", "d", ".", "c", "o", "m">>

HostTestPort == <<"t", ".", "d", ".", "c", "o", "m", ":", "8", "0">>

HostLan == <<"l", "a", "n">>

HostSubLocalhost == <<"x", ".", "l", "o", "c", "a", "l", "h", "o", "s", "t">>

HostLocalhostPort ==
  <<"l", "o", "c", "a", "l", "h", "o", "s", "t", ":", "8", "0">>

HostV4Port == <<"1", "2", "7", ".", "0", ".", "0", ".", "1", ":", "8", "0">>

HostAnyPort == <<"0", ".", "0", ".", "0", ".", "0", ":", "8", "0">>

HostV6Port == <<"[", ":", ":", "1", "]", ":", "8", "0">>

HostV6ZeroPort ==
  <<"[", "0", ":", "0", ":", "0", ":", "0", ":", "0", ":", "0", ":", "0",
    ":", "0", "]", ":", "8", "0">>

HostV6OnePort ==
  <<"[", "0", ":", "0", ":", "0", ":", "0", ":", "0", ":", "0", ":", "0",
    ":", "1", "]", ":", "8", "0">>

HostV6Bare == <<":", ":", "1", ":", "8", "0">>

PathRoot == <<"/">>

PathS == <<"/", "s">>

PathSeo == <<"/", "s", "/", "a">>

PathSeoSeo == <<"/", "s", "/", "s", "/", "a">>

PathOld == <<"/", "o", "/", "x">>

PathJson == <<"/", "u", ".", "j">>

PathSame == <<"/", "b">>

PathSameOld == <<"/", "b", "/", "o">>

PathP == <<"/", "p">>

PathC == <<"/", "c">>

QueryQ == <<"q", "=", "1">>

\* Options.RedirectMatch: up to MaxRules of the lines, in any order.
RedirectMatchLists == UNION {[1..n -> RuleLines] : n \in 0..MaxRules}

PrimarySubdomains == {<<>>, www}

OptionsSet ==
  [RedirectMatch : RedirectMatchLists, PrimarySubdomain : PrimarySubdomains]

\* The hosts the subdomain step tells apart: the root domain, its primary and
\* another subdomain, a name under no listed suffix, a name that ends in
\* localhost, and every loopback name alone and with a port.
Hosts ==
  {HostRoot, HostRootPort, HostWWW, HostWWWPort, HostTest, HostTestPort,
   HostLan, HostSubLocalhost, HostLocalhostPort, HostV4Port, HostAnyPort,
   HostV6Port, HostV6ZeroPort, HostV6OnePort, HostV6Bare}
  \cup LoopbackNames

\* The hosts the rules are tried on.
RuleHosts == {HostRoot, HostWWWPort}

Paths ==
  {PathRoot, PathS, PathSeo, PathSeoSeo, PathOld, PathJson, PathSame,
   PathSameOld, PathP, PathC}

Request(host, path, query, tls) ==
  [Method |-> "GET", Host |-> host, TLS |-> tls,
   URL |-> [Scheme |-> <<>>, Opaque |-> <<>>, Host |-> <<>>, Path |-> path,
            RawQuery |-> query]]

\* The requests a server hands to the handler: origin-form, so the URL has a
\* path and a query and the host is in the Host field.
Requests ==
  {Request(h, PathSeo, <<>>, FALSE) : h \in Hosts}
  \cup {Request(h, p, <<>>, FALSE) : h \in RuleHosts, p \in Paths}
  \cup {Request(h, PathJson, QueryQ, TRUE) : h \in RuleHosts}

\* 301 /a /b and 301 /b /a: neither pattern matches its own target, each
\* matches the other's.
LineAB == <<"3", "0", "1", " ", "/", "a", " ", "/", "b">>

LineBA == <<"3", "0", "1", " ", "/", "b", " ", "/", "a">>

PathA == <<"/", "a">>

ChainLines == {LineAB, LineBA, LineSeo, LineLoop}

ChainOptionsSet ==
  [RedirectMatch : UNION {[1..n -> ChainLines] : n \in 0..MaxRules},
   PrimarySubdomain : PrimarySubdomains]

ChainRequests ==
  {Request(h, p, <<>>, FALSE) :
     h \in {HostRoot, HostRootPort, HostLan}, p \in {PathA, PathSeo}}

(***************************************************************************)
(* The state machine.                                                      *)
(***************************************************************************)
VARIABLES
  pc,         \* "start", "failed" (New returned an error), "idle", "done"
  options,    \* the Options New was called with
  engine,     \* what New returned
  request,    \* the request as the handler received it
  r,          \* the request as the handler left it
  w,          \* the responses the handler wrote
  served,     \* the requests the handler passed to next.ServeHTTP
  evaluated,  \* the rules the handler called matchAndReplace on
  canon,      \* what the subdomain step did
  panicked,   \* the handler panicked in WriteHeader
  chain       \* the requests of the chain of redirects the client is
              \* following, each with what the subdomain step did on it

vars ==
  <<pc, options, engine, request, r, w, served, evaluated, canon, panicked,
    chain>>

NoRequest == Request(<<>>, <<>>, <<>>, FALSE)

NoOptions == [RedirectMatch |-> <<>>, PrimarySubdomain |-> <<>>]

NoEngine == [err |-> "", redirects |-> <<>>, PrimarySubdomain |-> <<>>]

Init ==
  /\ pc = "start"
  /\ options = NoOptions
  /\ engine = NoEngine
  /\ request = NoRequest
  /\ r = NoRequest
  /\ w = <<>>
  /\ served = <<>>
  /\ evaluated = <<>>
  /\ canon = ""
  /\ panicked = FALSE
  /\ chain = <<>>

\* rewrite.New(opts).
NewEngine(opts) ==
  /\ pc = "start"
  /\ options' = opts
  /\ engine' = New(opts)
  /\ pc' = IF engine'.err = "" THEN "idle" ELSE "failed"
  /\ UNCHANGED <<request, r, w, served, evaluated, canon, panicked, chain>>

\* The handler Engine.Handler(next) returns, called with request q.
Handler(q) ==
  /\ pc = "idle"
  /\ \E st \in {rewrite(engine, q)} :
         /\ request' = q
         /\ r' = st.r
         /\ w' = st.w
         /\ served' = st.next
         /\ evaluated' = st.evaluated
         /\ canon' = st.canon
         /\ panicked' = st.panicked
         /\ chain' = <<[request |-> q, canon |-> st.canon]>>
  /\ pc' = "done"
  /\ UNCHANGED <<options, engine>>

\* The status codes of a response whose Location a client goes to.
FollowedCodes == {301, 302, 303, 307, 308}

\* The handler has answered with a redirect a client follows.
Redirected ==
  /\ Len(w) = 1
  /\ w[1].code \in FollowedCodes
  /\ served = <<>>

\* The request a client sends after the response to q named location: the
\* Location resolved against the URL it had asked for.
NextRequest(q, location) ==
  Bind(ResolveReference(
         [Scheme |-> IF q.TLS THEN schemeHTTPS ELSE schemeHTTP, Opaque |-> <<>>,
          Host |-> q.Host, Path |-> q.URL.Path, RawQuery |-> q.URL.RawQuery],
         URLParse(location)),
       LAMBDA u :
         Request(u.Host, IF u.Path = <<>> THEN <<"/">> ELSE u.Path, u.RawQuery,
                 u.Scheme = schemeHTTPS))

\* The client follows the redirect it received: the handler is called with
\* the request for the Location.
Follow ==
  /\ pc = "done"
  /\ Len(chain) < MaxHops
  /\ Redirected
  /\ URLParse(w[1].location).ok
  /\ \E q \in {NextRequest(request, w[1].location)} :
       \E st \in {rewrite(engine, q)} :
         /\ request' = q
         /\ r' = st.r
         /\ w' = st.w
         /\ served' = st.next
         /\ evaluated' = st.evaluated
         /\ canon' = st.canon
         /\ panicked' = st.panicked
         /\ chain' = Append(chain, [request |-> q, canon |-> st.canon])
  /\ pc' = "done"
  /\ UNCHANGED <<options, engine>>

\* The exchange is over; the engine waits for the next request.
Return ==
  /\ pc = "done"
  /\ pc' = "idle"
  /\ request' = NoRequest
  /\ r' = NoRequest
  /\ w' = <<>>
  /\ served' = <<>>
  /\ evaluated' = <<>>
  /\ canon' = ""
  /\ panicked' = FALSE
  /\ chain' = <<>>
  /\ UNCHANGED <<options, engine>>

Next ==
  \/ \E opts \in OptionsSet : NewEngine(opts)
  \/ \E q \in Requests : Handler(q)
  \/ Return

Spec == Init /\ [][Next]_vars

\* The engine behind a client that follows the redirects it receives, on two
\* rules that send /a to /b and /b to /a and on hosts the subdomain step
\* redirects.
ChainNext ==
  \/ \E opts \in ChainOptionsSet : NewEngine(opts)
  \/ \E q \in ChainRequests : Handler(q)
  \/ Follow
  \/ Return

SpecChain == Init /\ [][ChainNext]_vars

(***************************************************************************)
(* The properties.  The handler has run on request when pc = "done"; the   *)
(* rule loop saw the request as the subdomain step left it.                *)
(***************************************************************************)
Handled == pc = "done"

NumRules == Len(engine.redirects)

Rule(i) == engine.redirects[i]

AfterCanon ==
  IF canon = "normalized"
  THEN [request EXCEPT !.Host = r.Host, !.URL.Host = r.Host]
  ELSE request

\* Rule i on the request: its subject, whether its pattern matches it and the
\* output of the substitution.
Trial(i) ==
  Bind(Subject(Rule(i), AfterCanon), LAMBDA src :
    IF MatchString(Rule(i).pattern, src)
    THEN [src |-> src, matched |-> TRUE,
          out |-> ReplaceAllString(Rule(i).pattern, src, Rule(i).target)]
    ELSE [src |-> src, matched |-> FALSE, out |-> <<>>])

\* The parts of a rule line, and a line that is well formed but for its loop.
LineParts(line) == Split(TrimSpace(line), " ")

WellFormed(line) ==
  /\ Len(LineParts(line)) = 3
  /\ LineParts(line)[1] # <<>>
  /\ \A k \in 1..Len(LineParts(line)[1]) : LineParts(line)[1][k] \in Digits
  /\ Compile(LineParts(line)[2]).ok

SelfMatching(line) ==
  /\ WellFormed(line)
  /\ MatchString(Compile(LineParts(line)[2]), LineParts(line)[3])

\* C1: a rule line whose compiled pattern matches its literal target makes
\* New fail, with the loop error when the lines are otherwise well formed,
\* and no rule an engine holds has a pattern that matches its target (stated
\* of the states New has returned to; a request leaves the engine as it is).
C1_LoopFreedom ==
  pc \in {"idle", "failed"} =>
    /\ \A i \in 1..NumRules : ~MatchString(Rule(i).pattern, Rule(i).target)
    /\ (\E k \in 1..Len(options.RedirectMatch) :
          SelfMatching(options.RedirectMatch[k]))
       => /\ pc = "failed"
          /\ engine.err # ""
          /\ (\A k \in 1..Len(options.RedirectMatch) :
                WellFormed(options.RedirectMatch[k]))
             => engine.err = "loop detected"

\* New was given a valid line and then one whose pattern matches its target.
C1_Witness ==
  /\ pc = "failed"
  /\ engine.err = "loop detected"
  /\ options.RedirectMatch = <<LineOld, LineLoop>>

\* The first rule whose pattern matches its subject and whose output is not
\* empty, from rule i on, with its trial; rule 0 when there is none.
RECURSIVE FirstFrom(_)
FirstFrom(i) ==
  IF i > NumRules THEN [rule |-> 0]
  ELSE Bind(Trial(i), LAMBDA t :
         IF t.matched /\ t.out # <<>> THEN [rule |-> i, trial |-> t]
         ELSE FirstFrom(i + 1))

FirstApplying == FirstFrom(1)

UpTo(n) == [k \in 1..n |-> k]

Evaluated(i) == \E k \in 1..Len(evaluated) : evaluated[k] = i

\* The outcome of the handler is what rule f does on its trial t.
EffectOf(f, t) ==
  IF t.out = t.src THEN w = <<>> /\ served = <<AfterCanon>>
  ELSE IF Rule(f).code <= 0
  THEN \/ w = <<>> /\ Len(served) = 1
       \/ w = <<[code |-> StatusMisdirectedRequest, location |-> <<>>]>>
          /\ served = <<>>
  ELSE /\ served = <<>>
       /\ IF panicked THEN w = <<>>
          ELSE w = <<[code |-> Rule(f).code,
                      location |-> IF Rule(f).isRelativePattern
                                   THEN RedirectLocation(AfterCanon, t.out)
                                   ELSE t.out]>>

\* C2 as claimed: of two rules whose patterns both match their subjects, the
\* later one is never evaluated.
C2_FirstPatternWins ==
  (Handled /\ canon # "redirect") =>
    \A i, j \in 1..NumRules :
      (i < j /\ Evaluated(j)) => ~(Trial(i).matched /\ Trial(j).matched)

\* C2: the rules are evaluated in declaration order up to the first one whose
\* pattern matches and whose output is not empty; only its effect is seen and
\* no later rule is evaluated.  A rule whose output is the empty string counts
\* as no match.
C2_FirstMatchWins ==
  (Handled /\ canon # "redirect") =>
    Bind(FirstApplying, LAMBDA f :
      IF f.rule = 0
      THEN evaluated = UpTo(NumRules) /\ w = <<>> /\ served = <<AfterCanon>>
      ELSE evaluated = UpTo(f.rule) /\ EffectOf(f.rule, f.trial))

\* The first of two rules that both match has redirected; the second was not
\* evaluated.
C2_Witness ==
  /\ Handled
  /\ options.RedirectMatch = <<LineSeo, LineOld>>
  /\ request.URL.Path = PathSeo
  /\ Trial(1).matched /\ Trial(2).matched
  /\ evaluated = <<1>>
  /\ w = <<[code |-> 301, location |-> <<"/", "a">>]>>

\* C3 as claimed: the output of a rule on a subject it matches is not matched
\* by the rule's pattern.
C3_OutputNeverMatches ==
  (Handled /\ canon # "redirect") =>
    \A i \in 1..NumRules :
      Bind(Trial(i), LAMBDA t :
        t.matched => ~MatchString(Rule(i).pattern, t.out))

\* C3: an output that is the rule's literal target is not matched by the
\* rule's pattern.
C3_TargetOutputNeverMatches ==
  (Handled /\ canon # "redirect") =>
    \A i \in 1..NumRules :
      Bind(Trial(i), LAMBDA t :
        (t.matched /\ t.out = Rule(i).target)
          => ~MatchString(Rule(i).pattern, t.out))

\* A rule has matched and put out its literal target.
C3_Witness ==
  /\ Handled
  /\ canon # "redirect"
  /\ NumRules > 0
  /\ Trial(1).matched
  /\ Trial(1).out = Rule(1).target
  /\ w # <<>>

\* C4: with no primary subdomain and no rule that matches, next gets the
\* request as it came and the handler writes nothing.
C4_PassThrough ==
  (Handled /\ engine.PrimarySubdomain = <<>>) =>
    \/ served = <<request>> /\ r = request /\ w = <<>> /\ ~panicked
    \/ FirstApplying.rule # 0

\* Two rules were tried on a request with a query and neither matched.
C4_Witness ==
  /\ Handled
  /\ engine.PrimarySubdomain = <<>>
  /\ NumRules = 2
  /\ request.URL.RawQuery # <<>>
  /\ \A i \in 1..NumRules : ~Trial(i).matched
  /\ served = <<request>>

\* The loopback names with a port, in the host:port form SplitHostPort reads.
LoopbackWithPort ==
  {HostLocalhostPort, HostV4Port, HostAnyPort, HostV6Port, HostV6ZeroPort,
   HostV6OnePort}

\* C5: on a loopback host, with or without a port, the subdomain step sends
\* no redirect and leaves the host fields alone, and the rules are evaluated.
C5_LoopbackNoop ==
  (Handled /\ request.Host \in (LoopbackNames \cup LoopbackWithPort)) =>
    /\ r.Host = request.Host
    /\ r.URL.Host = request.URL.Host
    /\ NumRules = 0 => (w = <<>> /\ served = <<request>>)
    /\ NumRules > 0 => (evaluated # <<>> /\ evaluated[1] = 1)

\* A primary subdomain is set and the rules ran on a loopback host with a port.
C5_Witness ==
  /\ Handled
  /\ engine.PrimarySubdomain # <<>>
  /\ request.Host = HostV6Port
  /\ evaluated = <<1, 2>>
  /\ r.Host = HostV6Port

\* The request came on the bare root domain: nothing precedes the root and the
\* port.
BareRoot ==
  getHost(request) = getDomain(getHost(request)) \o getPort(getHost(request))

\* The 301 to the primary subdomain of the request's host, path and query
\* kept, and nothing else done.
RootRedirected ==
  /\ w = <<[code |-> StatusMovedPermanently,
            location |-> <<"/", "/">> \o engine.PrimarySubdomain
                         \o getHost(request) \o request.URL.Path
                         \o (IF request.URL.RawQuery = <<>> THEN <<>>
                             ELSE <<"?">> \o request.URL.RawQuery)]>>
  /\ served = <<>>
  /\ evaluated = <<>>
  /\ ~panicked

\* C6 as claimed: a request on the bare root domain whose root is not
\* "localhost" gets the 301 to the primary subdomain.
C6_RootNotLocalhostRedirected ==
  (/\ Handled
   /\ engine.PrimarySubdomain # <<>>
   /\ getDomain(getHost(request)) # localhost
   /\ BareRoot) => RootRedirected

\* C6: a request on the bare root domain whose root does not end in
\* "localhost" gets the 301 to the primary subdomain, port, path and query
\* kept; no rule is evaluated and next is not called.
C6_RootRedirect ==
  (/\ Handled
   /\ engine.PrimarySubdomain # <<>>
   /\ ~HasSuffix(getDomain(getHost(request)), localhost)
   /\ BareRoot) => RootRedirected

\* The root domain with a port was redirected, though a rule matches the path.
C6_Witness ==
  /\ Handled
  /\ engine.PrimarySubdomain = <<"w", "w", "w", ".">>
  /\ request.Host = HostRootPort
  /\ options.RedirectMatch = <<LineSeo>>
  /\ w = <<[code |-> 301,
            location |-> <<"/", "/">> \o HostWWWPort \o PathSeo]>>

\* C7: a request on the primary subdomain of a root that is no loopback has
\* both host fields set to the root with its port, and the rules run on it: an
\* absolute rule sees the root host.  On any other subdomain the host fields
\* stay.
C7_PrimaryNormalized ==
  (Handled /\ engine.PrimarySubdomain # <<>>) =>
    LET host == getHost(request)
        domain == getDomain(host)
        root == domain \o getPort(host)
        seen == getScheme(request) \o root \o RequestURI(request.URL)
    IN  /\ (~HasSuffix(domain, localhost) /\ host = engine.PrimarySubdomain \o root)
           => /\ r.Host = root
              /\ r.URL.Host = root
              /\ NumRules = 0 => (w = <<>> /\ served = <<r>>)
              /\ NumRules > 0 =>
                   /\ evaluated # <<>> /\ evaluated[1] = 1
                   /\ (~Rule(1).isRelativePattern
                       /\ MatchString(Rule(1).pattern, seen))
                      => w = <<[code |-> Rule(1).code,
                                location |-> ReplaceAllString(
                                  Rule(1).pattern, seen, Rule(1).target)]>>
        /\ (/\ ~HasSuffix(domain, localhost)
            /\ TrimSuffix(host, root) \notin {<<>>, engine.PrimarySubdomain})
           => /\ r.Host = request.Host
              /\ r.URL.Host = request.URL.Host

\* A request on www.d.com:80 was redirected by the absolute rule on d.com.
C7_Witness ==
  /\ Handled
  /\ request.Host = HostWWWPort
  /\ options.RedirectMatch = <<LineTest>>
  /\ r.Host = HostRootPort
  /\ r.URL.Host = HostRootPort
  /\ Len(w) = 1
  /\ HasPrefix(w[1].location, <<"h", "t", "t", "p", ":", "/", "/", "n", ".", "c">>)

\* C8: when the first rule that matches has code 0 and its target differs
\* from the subject and parses, the request URL becomes the target resolved
\* against the URL, next gets that request once and nothing is written; a
\* rule with a code above 0 leaves the URL alone.
C8_InternalRewrite ==
  (Handled /\ canon # "redirect") =>
    Bind(FirstApplying, LAMBDA f :
      f.rule # 0 =>
        /\ (/\ Rule(f.rule).code = 0
            /\ f.trial.out # f.trial.src
            /\ URLParse(f.trial.out).ok)
           => /\ r.URL = ResolveReference(AfterCanon.URL, URLParse(f.trial.out))
              /\ r.Host = AfterCanon.Host
              /\ served = <<r>>
              /\ w = <<>>
        /\ Rule(f.rule).code > 0 => r.URL = AfterCanon.URL)

\* /u.j?q=1 went to next as /u?f=j.
C8_Witness ==
  /\ Handled
  /\ options.RedirectMatch = <<LineOld, LineFormat>>
  /\ request.URL.Path = PathJson
  /\ request.URL.RawQuery = QueryQ
  /\ r.URL.Path = <<"/", "u">>
  /\ r.URL.RawQuery = <<"f", "=", "j">>
  /\ served = <<r>>
  /\ w = <<>>

\* C9 as claimed: the handler either writes one response and does not call
\* next, or calls next once and writes nothing.
C9_ExactlyOneOutcome ==
  Handled =>
    \/ Len(w) = 1 /\ served = <<>>
    \/ w = <<>> /\ Len(served) = 1

\* C10: when the first rule that matches puts out its subject, the handler
\* writes nothing, leaves the URL alone, evaluates no later rule and calls
\* next.
C10_NoopMatch ==
  (Handled /\ canon # "redirect") =>
    Bind(FirstApplying, LAMBDA f :
      (f.rule # 0 /\ f.trial.out = f.trial.src)
        => /\ w = <<>>
           /\ served = <<AfterCanon>>
           /\ r = AfterCanon
           /\ evaluated = UpTo(f.rule))

\* The first rule put out its subject; the second, which would have
\* redirected, was not evaluated.
C10_Witness ==
  /\ Handled
  /\ options.RedirectMatch = <<LineSame, LineOld>>
  /\ request.URL.Path = PathSameOld
  /\ Trial(1).out = Trial(1).src
  /\ Trial(2).matched /\ Trial(2).out # Trial(2).src
  /\ evaluated = <<1>>
  /\ served = <<request>>
  /\ w = <<>>

\* The chain has come to a request it had made before.
Revisit ==
  \E i \in 1..(Len(chain) - 1) : chain[i].request = chain[Len(chain)].request

\* The engine holds two rules each of whose patterns matches the other's
\* target.
TwoRuleCycle ==
  /\ NumRules = 2
  /\ MatchString(Rule(1).pattern, Rule(2).target)
  /\ MatchString(Rule(2).pattern, Rule(1).target)

\* C11: New accepts every list of well-formed lines none of whose patterns
\* matches its own target, whatever the patterns make of each other's
\* targets; and a chain of followed redirects that has come back to a request
\* it made before is redirected again, so it does not end.
C11_PerRuleLoopCheck ==
  /\ pc \in {"idle", "failed"} =>
       ((\A k \in 1..Len(options.RedirectMatch) :
           /\ WellFormed(options.RedirectMatch[k])
           /\ ~SelfMatching(options.RedirectMatch[k]))
        => /\ pc = "idle"
           /\ engine.err = ""
           /\ NumRules = Len(options.RedirectMatch))
  /\ (Handled /\ Revisit) => Redirected

\* New accepted two rules that match each other's targets, and the client is
\* back at the request it started from, redirected once more.
C11_Witness ==
  /\ Handled
  /\ options.RedirectMatch = <<LineAB, LineBA>>
  /\ TwoRuleCycle
  /\ Len(chain) = 3
  /\ chain[1].request = chain[3].request
  /\ request.URL.Path = PathA
  /\ w = <<[code |-> 301, location |-> <<"/", "b">>]>>

\* C12 as claimed: in a chain of requests that follows redirects, the
\* redirect of the subdomain step is sent at most once.
C12_CanonicalRedirectOnce ==
  Handled =>
    Cardinality({k \in 1..Len(chain) : chain[k].canon = "redirect"}) <= 1

====
